---- MODULE Spec2Model ----
(***************************************************************************)
(* A model of chezmoi's "init" command (pkg/cmd/initcmd.go): the guessing  *)
(* of a repository URL from a short argument, and runInitCmd's bootstrap   *)
(* of the working tree (init or clone, with the builtin git or with the    *)
(* git command), including builtinGitClone's authentication retry loop     *)
(* and what it logs.                                                       *)
(*                                                                         *)
(* Strings are TLA+ strings; a character is a string of length one.        *)
(***************************************************************************)
EXTENDS Naturals, Sequences, FiniteSets, TLC

(***************************************************************************)
(* Strings                                                                 *)
(***************************************************************************)

Char(s, i) == SubSeq(s, i, i)

HasPrefix(s, p) == Len(s) >= Len(p) /\ SubSeq(s, 1, Len(p)) = p

HasSuffix(s, p) == Len(s) >= Len(p) /\ SubSeq(s, Len(s) - Len(p) + 1, Len(s)) = p

\* Whether sub occurs in s (strings.Contains).
Contains(s, sub) ==
    \E i \in 1..(Len(s) + 1) :
        i + Len(sub) - 1 <= Len(s) /\ SubSeq(s, i, i + Len(sub) - 1) = sub

\* The index of the first occurrence of the character c in s, 0 if none.
IndexOf(s, c) ==
    IF \E i \in 1..Len(s) : Char(s, i) = c
    THEN CHOOSE i \in 1..Len(s) :
             Char(s, i) = c /\ \A j \in 1..(i - 1) : Char(s, j) # c
    ELSE 0

\* The index of the last occurrence of the character c in s, 0 if none.
LastIndexOf(s, c) ==
    IF \E i \in 1..Len(s) : Char(s, i) = c
    THEN CHOOSE i \in 1..Len(s) :
             Char(s, i) = c /\ \A j \in (i + 1)..Len(s) : Char(s, j) # c
    ELSE 0

\* s cut at every "/" (strings.Split(s, "/")).
RECURSIVE Split(_)
Split(s) ==
    LET i == IndexOf(s, "/")
    IN  IF i = 0 THEN <<s>>
        ELSE <<SubSeq(s, 1, i - 1)>> \o Split(SubSeq(s, i + 1, Len(s)))

Digits == {"0", "1", "2", "3", "4", "5", "6", "7", "8", "9"}

Lower == {"a", "b", "c", "d", "e", "f", "g", "h", "i", "j", "k", "l", "m",
          "n", "o", "p", "q", "r", "s", "t", "u", "v", "w", "x", "y", "z"}

Upper == {"A", "B", "C", "D", "E", "F", "G", "H", "I", "J", "K", "L", "M",
          "N", "O", "P", "Q", "R", "S", "T", "U", "V", "W", "X", "Y", "Z"}

\* The character class [-0-9A-Za-z].
NameChars == {"-"} \cup Digits \cup Upper \cup Lower

\* The character class [-.0-9A-Za-z].
HostChars == NameChars \cup {"."}

\* s matches class+ : one or more characters, all of the class.
Plus(s, class) == Len(s) >= 1 /\ \A i \in 1..Len(s) : Char(s, i) \in class

(***************************************************************************)
(* repoGuesses: the regular expressions.  Every pattern is anchored at     *)
(* both ends (\A ... \z) and no character class holds "/", so a match      *)
(* cuts the argument at its slashes.  Groups(k, arg) is the sequence of    *)
(* the capture groups $1, $2, ... of rule k on arg when the pattern        *)
(* matches, and NoMatch otherwise; a group that did not take part in the   *)
(* match, (\.git)?, is the empty string.                                   *)
(***************************************************************************)

NoMatch == <<>>

\* ([-0-9A-Za-z]+)(\.git)? on one segment: <<name, suffix>> or NoMatch.
NameOptGit(seg) ==
    IF Plus(seg, NameChars) THEN <<seg, "">>
    ELSE IF HasSuffix(seg, ".git") /\ Plus(SubSeq(seg, 1, Len(seg) - 4), NameChars)
         THEN <<SubSeq(seg, 1, Len(seg) - 4), ".git">>
         ELSE NoMatch

\* sr\.ht/~([a-z_][a-z0-9_-]+) : the name after the tilde.
SrHtName(seg) ==
    IF /\ Len(seg) >= 3
       /\ Char(seg, 1) = "~"
       /\ Char(seg, 2) \in Lower \cup {"_"}
       /\ Plus(SubSeq(seg, 3, Len(seg)), Lower \cup Digits \cup {"_", "-"})
    THEN <<SubSeq(seg, 2, Len(seg))>>
    ELSE NoMatch

Groups(k, arg) ==
    LET p == Split(arg)
        n == Len(p)
    IN  CASE k = 1 ->
                IF n = 1 /\ Plus(p[1], NameChars) THEN <<p[1]>> ELSE NoMatch
          [] k = 2 ->
                IF n = 2 /\ Plus(p[1], NameChars) /\ NameOptGit(p[2]) # NoMatch
                THEN <<p[1]>> \o NameOptGit(p[2]) ELSE NoMatch
          [] k = 3 ->
                IF n = 2 /\ Plus(p[1], HostChars) /\ Plus(p[2], NameChars)
                THEN <<p[1], p[2]>> ELSE NoMatch
          [] k = 4 ->
                IF n = 3 /\ Plus(p[1], NameChars) /\ Plus(p[2], NameChars)
                         /\ Plus(p[3], HostChars)
                THEN <<p[1], p[2], p[3]>> ELSE NoMatch
          [] k = 5 ->
                IF n = 3 /\ Plus(p[1], HostChars) /\ Plus(p[2], NameChars)
                         /\ NameOptGit(p[3]) # NoMatch
                THEN <<p[1], p[2]>> \o NameOptGit(p[3]) ELSE NoMatch
          [] k = 6 ->
                \* (https?://) leaves "http:" or "https:", "" and three segments
                IF n = 5 /\ p[1] \in {"http:", "https:"} /\ p[2] = ""
                         /\ Plus(p[3], HostChars) /\ Plus(p[4], NameChars)
                         /\ NameOptGit(p[5]) # NoMatch
                THEN <<p[1] \o "//", p[3], p[4]>> \o NameOptGit(p[5]) ELSE NoMatch
          [] k = 7 ->
                IF n = 2 /\ p[1] = "sr.ht" THEN SrHtName(p[2]) ELSE NoMatch
          [] k = 8 ->
                IF n = 3 /\ p[1] = "sr.ht" /\ SrHtName(p[2]) # NoMatch
                         /\ Plus(p[3], NameChars)
                THEN SrHtName(p[2]) \o <<p[3]>> ELSE NoMatch

\* repoGuesses with no ssh template for the third rule.
repoGuessesRule3NoSSH ==
    << [httpRepoGuessRepl |-> "https://github.com/$1/dotfiles.git",
        sshRepoGuessRepl  |-> "git@github.com:$1/dotfiles.git",
        usernameGuessRepl |-> "$1"],
       [httpRepoGuessRepl |-> "https://github.com/$1/$2.git",
        sshRepoGuessRepl  |-> "git@github.com:$1/$2.git",
        usernameGuessRepl |-> "$1"],
       [httpRepoGuessRepl |-> "https://$1/$2/dotfiles.git",
        sshRepoGuessRepl  |-> "",
        usernameGuessRepl |-> "$2"],
       [httpRepoGuessRepl |-> "https://$1/$2/$3.git",
        sshRepoGuessRepl  |-> "git@$1:$2/$3.git",
        usernameGuessRepl |-> "$2"],
       [httpRepoGuessRepl |-> "https://$1/$2/$3.git",
        sshRepoGuessRepl  |-> "git@$1:$2/$3.git",
        usernameGuessRepl |-> "$2"],
       [httpRepoGuessRepl |-> "$1$2/$3/$4.git",
        sshRepoGuessRepl  |-> "git@$2:$3/$4.git",
        usernameGuessRepl |-> "$3"],
       [httpRepoGuessRepl |-> "https://git.sr.ht/~$1/dotfiles",
        sshRepoGuessRepl  |-> "git@git.sr.ht:~$1/dotfiles",
        usernameGuessRepl |-> "$1"],
       [httpRepoGuessRepl |-> "https://git.sr.ht/~$1/$2",
        sshRepoGuessRepl  |-> "git@git.sr.ht:~$1/$2",
        usernameGuessRepl |-> "$1"] >>

\* The templates of the rules, in the declared order.
repoGuesses ==
    << [httpRepoGuessRepl |-> "https://github.com/$1/dotfiles.git",
        sshRepoGuessRepl  |-> "git@github.com:$1/dotfiles.git",
        usernameGuessRepl |-> "$1"],
       [httpRepoGuessRepl |-> "https://github.com/$1/$2.git",
        sshRepoGuessRepl  |-> "git@github.com:$1/$2.git",
        usernameGuessRepl |-> "$1"],
       [httpRepoGuessRepl |-> "https://$1/$2/dotfiles.git",
        sshRepoGuessRepl  |-> "git@$1:$2/dotfiles.git",
        usernameGuessRepl |-> "$2"],
       [httpRepoGuessRepl |-> "https://$1/$2/$3.git",
        sshRepoGuessRepl  |-> "git@$1:$2/$3.git",
        usernameGuessRepl |-> "$2"],
       [httpRepoGuessRepl |-> "https://$1/$2/$3.git",
        sshRepoGuessRepl  |-> "git@$1:$2/$3.git",
        usernameGuessRepl |-> "$2"],
       [httpRepoGuessRepl |-> "$1$2/$3/$4.git",
        sshRepoGuessRepl  |-> "git@$2:$3/$4.git",
        usernameGuessRepl |-> "$3"],
       [httpRepoGuessRepl |-> "https://git.sr.ht/~$1/dotfiles",
        sshRepoGuessRepl  |-> "git@git.sr.ht:~$1/dotfiles",
        usernameGuessRepl |-> "$1"],
       [httpRepoGuessRepl |-> "https://git.sr.ht/~$1/$2",
        sshRepoGuessRepl  |-> "git@git.sr.ht:~$1/$2",
        usernameGuessRepl |-> "$1"] >>

\* The number a string of one digit denotes.
DigitValue(c) ==
    CASE c = "0" -> 0 [] c = "1" -> 1 [] c = "2" -> 2 [] c = "3" -> 3
      [] c = "4" -> 4 [] c = "5" -> 5 [] c = "6" -> 6 [] c = "7" -> 7
      [] c = "8" -> 8 [] c = "9" -> 9

\* How many characters of s, from index i on, belong to a group's name:
\* the longest run of letters, digits and underscores.
RECURSIVE NameRun(_, _)
NameRun(s, i) ==
    IF i <= Len(s) /\ Char(s, i) \in Digits \cup Lower \cup Upper \cup {"_"}
    THEN 1 + NameRun(s, i + 1)
    ELSE 0

\* The value of the group called name; a name that is no group is empty.
GroupValue(name, groups) ==
    IF Len(name) = 1 /\ name \in Digits /\ DigitValue(name) \in 1..Len(groups)
    THEN groups[DigitValue(name)]
    ELSE ""

\* Expand that takes the template for the text, as
\* Regexp.ReplaceAllLiteralString does.
ExpandLiteral(tmpl, groups) == tmpl

\* The template with every $name replaced by the group's text, as
\* Regexp.ReplaceAllString does for a pattern that matches the whole input.
RECURSIVE Expand(_, _)
Expand(tmpl, groups) ==
    IF tmpl = "" THEN ""
    ELSE IF Char(tmpl, 1) = "$" /\ NameRun(tmpl, 2) > 0
         THEN LET r == NameRun(tmpl, 2)
              IN  GroupValue(SubSeq(tmpl, 2, r + 1), groups)
                      \o Expand(SubSeq(tmpl, r + 2, Len(tmpl)), groups)
         ELSE Char(tmpl, 1) \o Expand(Tail(tmpl), groups)

\* GuessFrom that returns no repo when no rule matches.
RECURSIVE GuessFromNoFallback(_, _, _)
GuessFromNoFallback(k, arg, ssh) ==
    IF k > Len(repoGuesses) THEN <<"", "">>
    ELSE IF Groups(k, arg) = NoMatch THEN GuessFromNoFallback(k + 1, arg, ssh)
    ELSE IF ssh
         THEN <<"", Expand(repoGuesses[k].sshRepoGuessRepl, Groups(k, arg))>>
         ELSE <<Expand(repoGuesses[k].usernameGuessRepl, Groups(k, arg)),
                Expand(repoGuesses[k].httpRepoGuessRepl, Groups(k, arg))>>

\* GuessFrom that lets a later rule that matches win over an earlier one.
RECURSIVE GuessFromLastMatch(_, _, _)
GuessFromLastMatch(k, arg, ssh) ==
    IF k > Len(repoGuesses) THEN <<"", arg>>
    ELSE IF \E j \in (k + 1)..Len(repoGuesses) : Groups(j, arg) # NoMatch
         THEN GuessFromLastMatch(k + 1, arg, ssh)
    ELSE IF Groups(k, arg) = NoMatch THEN <<"", arg>>
    ELSE IF ssh
         THEN <<"", Expand(repoGuesses[k].sshRepoGuessRepl, Groups(k, arg))>>
         ELSE <<Expand(repoGuesses[k].usernameGuessRepl, Groups(k, arg)),
                Expand(repoGuesses[k].httpRepoGuessRepl, Groups(k, arg))>>

\* guessRepoURL from rule k on: <<username, repo>>.
RECURSIVE GuessFrom(_, _, _)
GuessFrom(k, arg, ssh) ==
    IF k > Len(repoGuesses) THEN <<"", arg>>
    ELSE IF Groups(k, arg) = NoMatch THEN GuessFrom(k + 1, arg, ssh)
    ELSE IF ssh /\ repoGuesses[k].sshRepoGuessRepl # ""
         THEN <<"", Expand(repoGuesses[k].sshRepoGuessRepl, Groups(k, arg))>>
    ELSE IF ~ssh /\ repoGuesses[k].httpRepoGuessRepl # ""
         THEN <<Expand(repoGuesses[k].usernameGuessRepl, Groups(k, arg)),
                Expand(repoGuesses[k].httpRepoGuessRepl, Groups(k, arg))>>
    ELSE GuessFrom(k + 1, arg, ssh)

\* guessRepoURL guesses the user's username and repo from arg.
guessRepoURL(arg, ssh) == GuessFrom(1, arg, ssh)

(***************************************************************************)
(* Errors.  An error is a string, Nil is the nil error.  No error of the   *)
(* model wraps another, so errors.Is is equality.                          *)
(***************************************************************************)

Nil == "nil"

ErrNotExist == "file does not exist"
ErrPermission == "permission denied"
ErrRawPath == "raw path: invalid argument"
ErrAuthenticationRequired == "authentication required"
ErrRepositoryNotFound == "repository not found"
ErrBuiltinSSH == "builtin git does not support cloning repos over ssh, please install git"
ErrInvalidURL == "parse: invalid character in host name"
ErrPlainInit == "repository already exists"
ErrExit == "exit status 128"
ErrWrite == "write /dev/stdout: broken pipe"
ErrEOF == "EOF"
ErrDelegated == "a later step of init failed"

errorsIs(err, target) == err = target

\* The error of runInitCmd for a .git that is not a directory.
ErrNotADirectory(path) == path \o ": not a directory"

(***************************************************************************)
(* net/url and go-git's transport.NewEndpoint, on the strings of the       *)
(* model (none holds "?", "#", "%" or "[").                                *)
(***************************************************************************)

\* The characters url.Parse accepts in a host and in a userinfo.
URLHostChars == HostChars \cup {"_", "~", ":"}

URLUserChars == HostChars \cup {"_", "~", ":"}

\* strconv.Itoa, for the natural numbers.
RECURSIVE Itoa(_)
Itoa(n) ==
    LET d == CHOOSE c \in Digits : DigitValue(c) = n % 10
    IN  IF n < 10 THEN d ELSE Itoa(n \div 10) \o d

\* ^[^:]+:// : the string starts with a scheme.
MatchesScheme(s) ==
    LET i == IndexOf(s, ":")
    IN  i > 1 /\ SubSeq(s, i, i + 2) = "://"

\* url.Parse of a string with a scheme: scheme://[userinfo@]host[/path].
\* User is the userinfo, hasUser whether there is one (URL.User # nil).
urlParse(s) ==
    LET i    == IndexOf(s, ":")
        rest == SubSeq(s, i + 3, Len(s))
        j    == IndexOf(rest, "/")
        authority == IF j = 0 THEN rest ELSE SubSeq(rest, 1, j - 1)
        path == IF j = 0 THEN "" ELSE SubSeq(rest, j, Len(rest))
        at   == LastIndexOf(authority, "@")
        user == IF at = 0 THEN "" ELSE SubSeq(authority, 1, at - 1)
        host == SubSeq(authority, at + 1, Len(authority))
        colon == LastIndexOf(host, ":")
        ok   == /\ \A k \in 1..Len(host) : Char(host, k) \in URLHostChars
                /\ \A k \in 1..Len(user) : Char(user, k) \in URLUserChars
                /\ colon # 0 =>
                       \A k \in (colon + 1)..Len(host) : Char(host, k) \in Digits
    IN  [err |-> IF ok THEN Nil ELSE ErrInvalidURL,
         Scheme |-> SubSeq(s, 1, i - 1),
         hasUser |-> at # 0,
         User |-> user,
         Host |-> host,
         Path |-> path]

\* URL.String.
urlString(u) ==
    u.Scheme \o "://" \o (IF u.hasUser THEN u.User \o "@" ELSE "") \o u.Host \o u.Path

\* [user@]host:path, the scp-like form of an ssh remote.
MatchesScpLike(s) ==
    LET i == IndexOf(s, ":")
    IN  /\ i > 1
        /\ \A k \in 1..(i - 1) : Char(s, k) # " "
        /\ i < Len(s)
        /\ Char(s, i + 1) # "\\"

\* transport.NewEndpoint: the scp-like form is ssh, a string with no scheme
\* is a file path, anything else is parsed as a URL and has its scheme for
\* a protocol.
NewEndpoint(s) ==
    IF ~MatchesScheme(s) /\ MatchesScpLike(s) THEN [err |-> Nil, Protocol |-> "ssh"]
    ELSE IF ~MatchesScheme(s) THEN [err |-> Nil, Protocol |-> "file"]
    ELSE [err |-> urlParse(s).err, Protocol |-> urlParse(s).Scheme]

(***************************************************************************)
(* The program's constants and the inputs of the model                     *)
(***************************************************************************)

\* git.GitDirName joined to the working tree, and the working tree.
WorkingTreeAbsPath == "/home/user/.local/share/chezmoi"

gitDirAbsPath == WorkingTreeAbsPath \o "/.git"

\* c.Git.Command
GitCommand == "git"

\* git.DefaultSubmoduleRecursionDepth
DefaultSubmoduleRecursionDepth == 10

\* How many times PlainClone may answer "authentication required" in a run.
MaxAuthFailures == 2

\* What Stat of the .git directory can answer.
StatResults ==
    { [err |-> Nil, isDir |-> TRUE],
      [err |-> Nil, isDir |-> FALSE],
      [err |-> ErrNotExist, isDir |-> FALSE],
      [err |-> ErrPermission, isDir |-> FALSE] }

\* The repository arguments: a bare user, host/user, full URLs that a rule
\* matches or not, with and without a user, ssh remotes, a URL that does
\* not parse.
RepoArgs ==
    { "alice", "example.com/bob", "https://a.b/o/r", "https://a.b/r",
      "https://me@a.b/o/r", "git@a.b:o/r.git", "ssh://git@a.b/o/r",
      "http://a b/r" }

Branches == {"", "main"}

Depths == {0, 2}

\* What git.PlainClone can return.
CloneResults == {Nil, ErrAuthenticationRequired, ErrRepositoryNotFound}

\* What is typed at "Username? " and at "Password? ".
Usernames == {"", "zed"}

Passwords == {"", "hunter2", "s3cret"}

\* cloneOptions.Auth: nil, or a pointer to an http.BasicAuth.
NoAuth == [set |-> FALSE, Username |-> "", Password |-> ""]

BasicAuth(u, p) == [set |-> TRUE, Username |-> u, Password |-> p]

NotReturned == "running"

VARIABLES
    pc,            \* where runInitCmd is
    args,          \* the command's arguments: none or one
    init,          \* c.init
    force,         \* c.force
    useBuiltinGit, \* c.UseBuiltinGit.Value(...)
    gitDirStat,    \* what c.baseSystem.Stat(gitDirAbsPath) answers
    stage,         \* the branch runInitCmd took
    username,      \* the local username
    repoURLStr,    \* the local repoURLStr
    cloneOptions,  \* builtinGitClone's cloneOptions
    basicAuth,     \* builtinGitClone's basicAuth, being filled
    log,           \* the entries written to c.logger
    cloneOptions2, \* cloneOptions and log of a second run that is given
    log2,          \*   other passwords and is otherwise the same
    alike,         \* whether the passwords of the two runs were, at every
                   \*   prompt, both empty or both not empty
    runs,          \* the calls of c.run, with what each returned
    plainInits,    \* the calls of git.PlainInit
    plainClones,   \* the calls of git.PlainClone
    results,       \* what the calls of git.PlainClone returned, in order
    stdout,        \* what was written to c.stdout
    readStrings,   \* the calls of c.readString
    readPasswords, \* the calls of c.readPassword
    delegated,     \* whether the steps after the working tree were run
    err            \* what runInitCmd returned

vars == <<pc, args, init, force, useBuiltinGit, gitDirStat, stage, username,
          repoURLStr, cloneOptions, basicAuth, log, cloneOptions2, log2, runs,
          plainInits, plainClones, results, stdout, readStrings, readPasswords,
          delegated, err, alike>>

inputs == <<args, force, useBuiltinGit, gitDirStat>>

cloneVars == <<cloneOptions, basicAuth, cloneOptions2, alike>>

effects == <<log, log2, runs, plainInits, plainClones, results, stdout,
             readStrings, readPasswords, delegated>>

\* The start of runInitCmd, with its arguments among argLists.
Start(argLists) ==
    /\ pc = "runInitCmd"
    /\ args \in argLists
    /\ init \in [apply : {FALSE}, branch : Branches, depth : Depths,
                 guessRepoURL : BOOLEAN, oneShot : BOOLEAN, purge : {FALSE},
                 purgeBinary : {FALSE}, recurseSubmodules : BOOLEAN,
                 ssh : BOOLEAN]
    /\ force = FALSE
    /\ useBuiltinGit \in BOOLEAN
    /\ gitDirStat \in StatResults
    /\ stage = "none"
    /\ username = ""
    /\ repoURLStr = ""
    /\ cloneOptions = [URL |-> "", Depth |-> 0, ReferenceName |-> "",
                       RecurseSubmodules |-> 0, Auth |-> NoAuth]
    /\ basicAuth = NoAuth
    /\ cloneOptions2 = cloneOptions
    /\ alike = TRUE
    /\ log = <<>>
    /\ log2 = <<>>
    /\ runs = <<>>
    /\ plainInits = 0
    /\ plainClones = 0
    /\ results = <<>>
    /\ stdout = <<>>
    /\ readStrings = 0
    /\ readPasswords = 0
    /\ delegated = FALSE
    /\ err = NotReturned

Init == Start({<<>>} \cup {<<a>> : a \in RepoArgs})

\* return e
Return(e) == pc' = "done" /\ err' = e

(***************************************************************************)
(* runInitCmd, up to the init or the clone                                 *)
(***************************************************************************)

\* StatCase without the case of a directory: a .git that is there is
\* taken for one that is not.
StatCaseDirAsAbsent(fileInfo) ==
    IF fileInfo.err = Nil /\ ~fileInfo.isDir THEN "not a directory"
    ELSE IF fileInfo.err = Nil \/ errorsIs(fileInfo.err, ErrNotExist) THEN "not exist"
    ELSE "error"

\* StatCase that asks only whether Stat failed, not for a directory.
StatCaseAnyFile(fileInfo) ==
    IF fileInfo.err = Nil THEN "directory"
    ELSE IF errorsIs(fileInfo.err, ErrNotExist) THEN "not exist"
    ELSE "error"

\* The case of the switch on Stat's answer.
StatCase(fileInfo) ==
    IF fileInfo.err = Nil /\ fileInfo.isDir THEN "directory"
    ELSE IF fileInfo.err = Nil /\ ~fileInfo.isDir THEN "not a directory"
    ELSE IF errorsIs(fileInfo.err, ErrNotExist) THEN "not exist"
    ELSE "error"

\* c.init after the one-shot settings.
OneShot(i) ==
    IF i.oneShot
    THEN [i EXCEPT !.apply = TRUE, !.depth = 1, !.purge = TRUE, !.purgeBinary = TRUE]
    ELSE i

\* The username and the URL of the repository to clone.
RepoOf(guess, arg, ssh) ==
    IF guess THEN guessRepoURL(arg, ssh) ELSE <<"", arg>>

\* StageOf with the git command for every init.
StageOfGitInit(builtin, a) ==
    IF Len(a) = 0
    THEN "gitInit"
    ELSE (IF builtin THEN "builtinGitClone" ELSE "gitClone")

\* Which init or clone runInitCmd goes to for a .git that does not exist.
StageOf(builtin, a) ==
    IF Len(a) = 0
    THEN (IF builtin THEN "builtinGitInit" ELSE "gitInit")
    ELSE (IF builtin THEN "builtinGitClone" ELSE "gitClone")

runInitCmd ==
    /\ pc = "runInitCmd"
    /\ init' = OneShot(init)
    /\ force' = (init.oneShot \/ force)
    /\ CASE StatCase(gitDirStat) = "directory" ->
                /\ pc' = "delegated"
                /\ stage' = "directory"
                /\ UNCHANGED <<username, repoURLStr, err>>
         [] StatCase(gitDirStat) = "not a directory" ->
                /\ Return(ErrNotADirectory(gitDirAbsPath))
                /\ stage' = "not a directory"
                /\ UNCHANGED <<username, repoURLStr>>
         [] StatCase(gitDirStat) = "error" ->
                /\ Return(gitDirStat.err)
                /\ stage' = "error"
                /\ UNCHANGED <<username, repoURLStr>>
         [] StatCase(gitDirStat) = "not exist" ->
                \E rawPathErr \in {Nil, ErrRawPath} :
                    IF rawPathErr # Nil
                    THEN /\ Return(rawPathErr)
                         /\ stage' = "error"
                         /\ UNCHANGED <<username, repoURLStr>>
                    ELSE /\ pc' = StageOf(useBuiltinGit, args)
                         /\ stage' = StageOf(useBuiltinGit, args)
                         /\ username' = IF Len(args) = 0 THEN ""
                                        ELSE RepoOf(init.guessRepoURL, args[1], init.ssh)[1]
                         /\ repoURLStr' = IF Len(args) = 0 THEN ""
                                          ELSE RepoOf(init.guessRepoURL, args[1], init.ssh)[2]
                         /\ UNCHANGED err
    /\ UNCHANGED <<args, useBuiltinGit, gitDirStat, cloneVars, effects>>

(***************************************************************************)
(* The init of an empty repository                                         *)
(***************************************************************************)

\* One entry of the log: the error, the fields and the message.
LogEntry(e, path, isBare, o, msg) ==
    [error |-> e, path |-> path, isBare |-> isBare, o |-> o, message |-> msg]

\* AfterTree that tries again after an error instead of returning it.
AfterTreeRetries(e) ==
    IF e # Nil THEN UNCHANGED <<pc, err>> ELSE pc' = "delegated" /\ UNCHANGED err

\* Where runInitCmd goes after an init or a clone that returned e.
AfterTree(e) ==
    IF e # Nil THEN Return(e) ELSE pc' = "delegated" /\ UNCHANGED err

builtinGitInit ==
    /\ pc = "builtinGitInit"
    /\ \E e \in {Nil, ErrPlainInit} :
        /\ plainInits' = plainInits + 1
        /\ log' = Append(log, LogEntry(e, WorkingTreeAbsPath, FALSE, <<>>, "PlainInit"))
        /\ log2' = Append(log2, LogEntry(e, WorkingTreeAbsPath, FALSE, <<>>, "PlainInit"))
        /\ AfterTree(e)
    /\ UNCHANGED <<args, init, force, useBuiltinGit, gitDirStat, stage, username,
                   repoURLStr, cloneVars, runs, plainClones, results, stdout,
                   readStrings, readPasswords, delegated>>

\* One call of c.run and what it returned.
Run(dir, name, argv, e) == [dir |-> dir, name |-> name, args |-> argv, result |-> e]

gitInit ==
    /\ pc = "gitInit"
    /\ \E e \in {Nil, ErrExit} :
        /\ runs' = Append(runs, Run(WorkingTreeAbsPath, GitCommand, <<"init", "--quiet">>, e))
        /\ AfterTree(e)
    /\ UNCHANGED <<args, init, force, useBuiltinGit, gitDirStat, stage, username,
                   repoURLStr, cloneVars, log, log2, plainInits, plainClones, results,
                   stdout, readStrings, readPasswords, delegated>>

(***************************************************************************)
(* builtinGitClone                                                         *)
(***************************************************************************)

\* plumbing.NewBranchReferenceName, or no reference name for no branch.
ReferenceNameOf(branch) == IF branch # "" THEN "refs/heads/" \o branch ELSE ""

\* RefusesSSH that looks at the endpoint's protocol only.
RefusesSSHProtocolOnly(ssh, endpoint) == endpoint.Protocol = "ssh"

\* RefusesSSH that looks at the --ssh flag only.
RefusesSSHFlagOnly(ssh, endpoint) == ssh

\* Whether builtinGitClone refuses the clone as one over ssh.
RefusesSSH(ssh, endpoint) == ssh \/ endpoint.Protocol = "ssh"

builtinGitClone ==
    /\ pc = "builtinGitClone"
    /\ LET endpoint == NewEndpoint(repoURLStr)
       IN  IF endpoint.err # Nil
           THEN Return(endpoint.err) /\ UNCHANGED <<cloneOptions, cloneOptions2>>
           ELSE IF RefusesSSH(init.ssh, endpoint)
           THEN Return(ErrBuiltinSSH) /\ UNCHANGED <<cloneOptions, cloneOptions2>>
           ELSE /\ cloneOptions' = [URL |-> repoURLStr,
                                    Depth |-> init.depth,
                                    ReferenceName |-> ReferenceNameOf(init.branch),
                                    RecurseSubmodules |-> DefaultSubmoduleRecursionDepth,
                                    Auth |-> NoAuth]
                /\ cloneOptions2' = cloneOptions'
                /\ pc' = "PlainClone"
                /\ UNCHANGED err
    /\ UNCHANGED <<inputs, init, stage, username, repoURLStr, basicAuth, alike,
                   effects>>

\* BasicAuthString without the mask.
BasicAuthStringRaw(a) ==
    "http-basic-auth - " \o a.Username \o ":" \o a.Password

\* BasicAuthString with the password masked and the username left out.
BasicAuthStringNoUser(a) ==
    "http-basic-auth - " \o (IF a.Password = "" THEN "<empty>" ELSE "*******")

\* http.BasicAuth's String: the name of the method, the username and a
\* mask in the place of the password.
BasicAuthString(a) ==
    "http-basic-auth - " \o a.Username \o ":"
        \o (IF a.Password = "" THEN "<empty>" ELSE "*******")

\* c.logger's field for a value that may be absent.
Field(present, key, value) == IF present THEN <<(<<key, value>>)>> ELSE <<>>

\* loggableGitCloneOptions.MarshalZerologObject: the fields of the event, in
\* order.  RemoteName, SingleBranch, NoCheckout, Tags, InsecureSkipTLS and
\* CABundle are never set and so never logged.
MarshalZerologObject(o) ==
    Field(o.URL # "", "URL", o.URL)
        \o Field(o.Auth.set, "Auth", BasicAuthString(o.Auth))
        \o Field(o.ReferenceName # "", "ReferenceName", o.ReferenceName)
        \o Field(o.Depth # 0, "Depth", Itoa(o.Depth))
        \o Field(o.RecurseSubmodules # 0, "RecurseSubmodules", Itoa(o.RecurseSubmodules))

\* Retries that gives up on every error.
RetriesNever(e) == FALSE

\* Retries for every error.
RetriesAnyError(e) == e # Nil

\* Whether the loop goes on to the prompts and another clone after err.
Retries(e) == errorsIs(e, ErrAuthenticationRequired)

\* How many of the results are "authentication required".
AuthFailures(r) ==
    Cardinality({i \in 1..Len(r) : r[i] = ErrAuthenticationRequired})

\* CloneEntries that logs the failed attempts only.
CloneEntriesOnlyErrors(e, o) ==
    IF e = Nil THEN <<>>
    ELSE <<[error |-> e, path |-> WorkingTreeAbsPath, isBare |-> FALSE,
            o |-> <<>>, message |-> "PlainClone"]>>

\* The entries the clone writes to the log for one attempt.
CloneEntries(e, o) ==
    <<LogEntry(e, WorkingTreeAbsPath, FALSE, MarshalZerologObject(o), "PlainClone")>>

PlainClone ==
    /\ pc = "PlainClone"
    /\ plainClones <= MaxAuthFailures
    /\ \E e \in CloneResults :
        /\ e = ErrAuthenticationRequired => AuthFailures(results) < MaxAuthFailures
        /\ plainClones' = plainClones + 1
        /\ results' = Append(results, e)
        /\ log' = log \o CloneEntries(e, cloneOptions)
        /\ log2' = log2 \o CloneEntries(e, cloneOptions2)
        /\ IF ~Retries(e)
           THEN AfterTree(e)
           ELSE pc' = "Fprintf" /\ UNCHANGED err
    /\ UNCHANGED <<inputs, init, stage, username, repoURLStr, cloneVars, runs,
                   plainInits, stdout, readStrings, readPasswords, delegated>>

\* The loop's err: what the last PlainClone returned.
LastCloneErr == IF results = <<>> THEN Nil ELSE results[Len(results)]

\* fmt.Fprintf(c.stdout, "chezmoi: %s: %v\n", repoURLStr, err)
Fprintf ==
    /\ pc = "Fprintf"
    /\ \E e \in {Nil, ErrWrite} :
        IF e # Nil
        THEN Return(e) /\ UNCHANGED stdout
        ELSE /\ stdout' = Append(stdout, "chezmoi: " \o repoURLStr \o ": " \o LastCloneErr \o "\n")
             /\ pc' = "readString"
             /\ UNCHANGED err
    /\ UNCHANGED <<inputs, init, stage, username, repoURLStr, cloneVars, log, log2,
                   runs, plainInits, plainClones, results, readStrings,
                   readPasswords, delegated>>

\* c.readString("Username? ", &username), and the guessed username for an
\* empty answer.
readString ==
    /\ pc = "readString"
    /\ readStrings' = readStrings + 1
    /\ \/ /\ Return(ErrEOF)
          /\ UNCHANGED basicAuth
       \/ \E u \in Usernames :
            /\ basicAuth' = BasicAuth(IF u = "" THEN username ELSE u, "")
            /\ pc' = "readPassword"
            /\ UNCHANGED err
    /\ UNCHANGED <<inputs, init, stage, username, repoURLStr, cloneOptions,
                   cloneOptions2, alike, log, log2, runs, plainInits, plainClones,
                   results, stdout, readPasswords, delegated>>

\* ReadPasswords that attaches the credentials only when there are none yet.
ReadPasswordsKeepFirst(p, p2) ==
    /\ basicAuth' = [basicAuth EXCEPT !.Password = p]
    /\ cloneOptions' = IF cloneOptions.Auth.set THEN cloneOptions
                       ELSE [cloneOptions EXCEPT !.Auth = basicAuth']
    /\ cloneOptions2' = IF cloneOptions2.Auth.set THEN cloneOptions2
                        ELSE [cloneOptions2 EXCEPT !.Auth = [basicAuth EXCEPT !.Password = p2]]
    /\ alike' = (alike /\ ((p = "") <=> (p2 = "")))
    /\ pc' = "PlainClone"
    /\ UNCHANGED err

\* c.readPassword("Password? ") and cloneOptions.Auth = &basicAuth, where
\* the second run is given the password p2.
ReadPasswords(p, p2) ==
    /\ basicAuth' = [basicAuth EXCEPT !.Password = p]
    /\ cloneOptions' = [cloneOptions EXCEPT !.Auth = basicAuth']
    /\ cloneOptions2' = [cloneOptions2 EXCEPT !.Auth = [basicAuth EXCEPT !.Password = p2]]
    /\ alike' = (alike /\ ((p = "") <=> (p2 = "")))
    /\ pc' = "PlainClone"
    /\ UNCHANGED err

readPassword ==
    /\ pc = "readPassword"
    /\ readPasswords' = readPasswords + 1
    /\ \/ /\ Return(ErrEOF)
          /\ UNCHANGED cloneVars
       \/ \E p \in Passwords : ReadPasswords(p, p)
    /\ UNCHANGED <<inputs, init, stage, username, repoURLStr, log, log2, runs,
                   plainInits, plainClones, results, stdout, readStrings, delegated>>

\* readPassword, with any password for the second run.
readPasswordTwoRuns ==
    /\ pc = "readPassword"
    /\ readPasswords' = readPasswords + 1
    /\ \/ /\ Return(ErrEOF)
          /\ UNCHANGED cloneVars
       \/ \E p \in Passwords, p2 \in Passwords : ReadPasswords(p, p2)
    /\ UNCHANGED <<inputs, init, stage, username, repoURLStr, log, log2, runs,
                   plainInits, plainClones, results, stdout, readStrings, delegated>>

(***************************************************************************)
(* The clone with the git command                                          *)
(***************************************************************************)

\* Whether runInitCmd puts the username into the URL.
InjectsUser(guess, url) ==
    guess /\ (HasPrefix(url, "http://") \/ HasPrefix(url, "https://"))

\* The URL with the username for a user, if it has none.
WithUser(url, user) ==
    IF urlParse(url).hasUser THEN url
    ELSE urlString([urlParse(url) EXCEPT !.hasUser = TRUE, !.User = user])

\* CloneFlags with --depth before --branch.
CloneFlagsDepthFirst(i) ==
    <<"clone">>
        \o (IF i.recurseSubmodules THEN <<"--recurse-submodules">> ELSE <<>>)
        \o (IF i.depth # 0 THEN <<"--depth", Itoa(i.depth)>> ELSE <<>>)
        \o (IF i.branch # "" THEN <<"--branch", i.branch>> ELSE <<>>)

\* The arguments of git clone but for the URL and the working tree.
CloneFlags(i) ==
    <<"clone">>
        \o (IF i.recurseSubmodules THEN <<"--recurse-submodules">> ELSE <<>>)
        \o (IF i.branch # "" THEN <<"--branch", i.branch>> ELSE <<>>)
        \o (IF i.depth # 0 THEN <<"--depth", Itoa(i.depth)>> ELSE <<>>)

gitClone ==
    /\ pc = "gitClone"
    /\ IF InjectsUser(init.guessRepoURL, repoURLStr) /\ urlParse(repoURLStr).err # Nil
       THEN /\ Return(urlParse(repoURLStr).err)
            /\ UNCHANGED <<repoURLStr, runs>>
       ELSE /\ repoURLStr' = IF InjectsUser(init.guessRepoURL, repoURLStr)
                             THEN WithUser(repoURLStr, username)
                             ELSE repoURLStr
            /\ \E e \in {Nil, ErrExit} :
                /\ runs' = Append(runs, Run("", GitCommand,
                                           CloneFlags(init) \o <<repoURLStr', WorkingTreeAbsPath>>, e))
                /\ AfterTree(e)
    /\ UNCHANGED <<inputs, init, stage, username, cloneVars, log, log2, plainInits,
                   plainClones, results, stdout, readStrings, readPasswords,
                   delegated>>

(***************************************************************************)
(* The steps after the working tree: checkVersion, the source directory,   *)
(* the config file, apply and purge.                                       *)
(***************************************************************************)

delegatedSteps ==
    /\ pc = "delegated"
    /\ delegated' = TRUE
    /\ \E e \in {Nil, ErrDelegated} : Return(e)
    /\ UNCHANGED <<inputs, init, stage, username, repoURLStr, cloneVars, log, log2,
                   runs, plainInits, plainClones, results, stdout, readStrings,
                   readPasswords>>

Next ==
    \/ runInitCmd
    \/ builtinGitInit
    \/ gitInit
    \/ builtinGitClone
    \/ PlainClone
    \/ Fprintf
    \/ readString
    \/ readPassword
    \/ gitClone
    \/ delegatedSteps

Spec == Init /\ [][Next]_vars

(***************************************************************************)
(* Two runs of the clone loop that differ in the passwords only.           *)
(***************************************************************************)

InitTwoRuns ==
    /\ Init
    /\ StatCase(gitDirStat) = "not exist"
    /\ useBuiltinGit
    /\ Len(args) = 1
    /\ ~init.ssh
    /\ ~init.oneShot
    /\ ~init.recurseSubmodules

NextTwoRuns ==
    \/ runInitCmd
    \/ builtinGitClone
    \/ PlainClone
    \/ Fprintf
    \/ readString
    \/ readPasswordTwoRuns
    \/ delegatedSteps

SpecTwoRuns == InitTwoRuns /\ [][NextTwoRuns]_vars

(***************************************************************************)
(* The clone loop on its own, where no step waits for ever: PlainClone and *)
(* the prompts return, and PlainClone answers "authentication required" at *)
(* most MaxAuthFailures times.                                             *)
(***************************************************************************)

InitCloneLoop == InitTwoRuns

NextCloneLoop ==
    \/ runInitCmd
    \/ builtinGitClone
    \/ PlainClone
    \/ Fprintf
    \/ readString
    \/ readPassword
    \/ delegatedSteps

\* Once inside builtinGitClone the program runs on: each step of it is taken
\* when it is the next one.
CloneLoopSteps ==
    \/ builtinGitClone
    \/ PlainClone
    \/ Fprintf
    \/ readString
    \/ readPassword

SpecCloneLoop == InitCloneLoop /\ [][NextCloneLoop]_vars /\ WF_vars(CloneLoopSteps)

(***************************************************************************)
(* guessRepoURL on its own: runInitCmd up to the guess, for the arguments  *)
(* made of up to MaxSegments segments, with or without a scheme.           *)
(***************************************************************************)

MaxSegments == 3

\* What an argument has between its slashes.
Segments == {"alice", "r", "r.git", "X-1", "a.b", "sr.ht", "~lu", "x_y"}

Schemes == {"", "https://", "http://", "ssh://"}

\* The segments with a "/" between them.
RECURSIVE Join(_)
Join(q) == IF Len(q) = 1 THEN q[1] ELSE q[1] \o "/" \o Join(Tail(q))

GuessArgs ==
    { sch \o Join(q) :
        sch \in Schemes, q \in UNION {[1..n -> Segments] : n \in 1..MaxSegments} }

InitGuess ==
    /\ Start({<<a>> : a \in GuessArgs})
    /\ StatCase(gitDirStat) = "not exist"
    /\ ~useBuiltinGit
    /\ init.guessRepoURL
    /\ init.branch = "" /\ init.depth = 0
    /\ ~init.oneShot /\ ~init.recurseSubmodules

NextGuess == runInitCmd

SpecGuess == InitGuess /\ [][NextGuess]_vars

(***************************************************************************)
(* What the claims speak of                                                *)
(***************************************************************************)

\* No init, no clone and no prompt has happened.
NothingDone ==
    /\ plainInits = 0
    /\ plainClones = 0
    /\ runs = <<>>
    /\ readStrings = 0
    /\ readPasswords = 0
    /\ stdout = <<>>

\* runInitCmd is past its init or clone, or has returned.
TreeStageOver == pc \in {"delegated", "done"}

\* The value of the field key of a logged object, "" when it has none.
FieldOf(o, key) ==
    IF \E i \in 1..Len(o) : o[i][1] = key
    THEN o[CHOOSE i \in 1..Len(o) : o[i][1] = key][2]
    ELSE ""

HasField(o, key) == \E i \in 1..Len(o) : o[i][1] = key

\* The URL that runInitCmd resolved from its argument.
ResolvedURL == RepoOf(init.guessRepoURL, args[1], init.ssh)[2]

\* The URL that was handed to git clone.
HandedURL == runs[1].args[Len(runs[1].args) - 1]

(***************************************************************************)
(* The claims                                                              *)
(***************************************************************************)

\* C1: when .git exists and is a directory, runInitCmd runs no init and no
\* clone, neither builtin nor with the git command, and asks for no
\* username or password, whatever the argument and the settings; it goes on
\* to the steps after the working tree and fails only if one of them does.
C1_DirectoryIsNoOp ==
    (gitDirStat.err = Nil /\ gitDirStat.isDir) =>
        /\ NothingDone
        /\ log = <<>>
        /\ pc # "runInitCmd" => (pc = "delegated" \/ delegated)
        /\ err \in {NotReturned, Nil, ErrDelegated}

C1_Witness ==
    /\ gitDirStat.err = Nil /\ gitDirStat.isDir
    /\ Len(args) = 1 /\ init.guessRepoURL /\ init.ssh /\ useBuiltinGit
    /\ pc = "done" /\ delegated /\ err = Nil

\* C2: when .git exists and is not a directory, runInitCmd returns the
\* "not a directory" error at once: no init, no clone, no call of the git
\* command, no prompt and none of the later steps ever happens.
C2_NotADirectoryFails ==
    (gitDirStat.err = Nil /\ ~gitDirStat.isDir /\ pc # "runInitCmd") =>
        /\ pc = "done"
        /\ err = gitDirAbsPath \o ": not a directory"
        /\ NothingDone
        /\ log = <<>>
        /\ ~delegated

C2_Witness ==
    /\ gitDirStat.err = Nil /\ ~gitDirStat.isDir
    /\ Len(args) = 1
    /\ pc = "done"
    /\ err = "/home/user/.local/share/chezmoi/.git: not a directory"

\* C3, the parts that hold: every clone but the last returned
\* "authentication required"; a clone that returns anything else ends the
\* loop at once, with as many prompts as there were failures before it, and
\* an error is returned as it is.
C3_OnlyAuthIsRetried ==
    /\ plainClones = Len(results)
    /\ \A i \in 1..(Len(results) - 1) : results[i] = ErrAuthenticationRequired
    /\ (results # <<>> /\ LastCloneErr # ErrAuthenticationRequired) =>
          /\ TreeStageOver
          /\ readStrings = Len(results) - 1
          /\ readPasswords = Len(results) - 1
          /\ LastCloneErr # Nil => (pc = "done" /\ err = LastCloneErr /\ ~delegated)

\* C3 as amended: as above, and after "authentication required" the loop
\* ends without another clone only when writing the notice or reading the
\* username or the password failed, with that error.
C3_RetryUnlessPromptFails ==
    /\ C3_OnlyAuthIsRetried
    /\ (pc = "done" /\ LastCloneErr = ErrAuthenticationRequired) =>
          /\ err \in {ErrWrite, ErrEOF}
          /\ ~delegated

C3_Witness ==
    /\ results = <<ErrAuthenticationRequired, ErrRepositoryNotFound>>
    /\ pc = "done"
    /\ err = ErrRepositoryNotFound
    /\ readPasswords = 1

\* C3 as stated: another clone is made if and only if the failure was
\* "authentication required", so that no run ends on that failure.
C3_RetryIffAuth ==
    /\ C3_OnlyAuthIsRetried
    /\ pc = "done" => LastCloneErr # ErrAuthenticationRequired

\* C4: when PlainClone has returned "authentication required" n times and
\* then something else, there were n prompts for a username, n for a
\* password, n + 1 clones and one log entry for each of them, in order, and
\* this stays so: no clone follows.
C4_PromptsAndAttempts ==
    (results # <<>> /\ LastCloneErr # ErrAuthenticationRequired) =>
        LET n == Len(results) - 1
        IN  /\ AuthFailures(results) = n
            /\ readStrings = n
            /\ readPasswords = n
            /\ Len(stdout) = n
            /\ plainClones = n + 1
            /\ Len(log) = n + 1
            /\ \A i \in 1..(n + 1) :
                   log[i].message = "PlainClone" /\ log[i].error = results[i]
            /\ pc \in {"delegated", "done"}

C4_Witness ==
    /\ results = <<ErrAuthenticationRequired, ErrAuthenticationRequired, Nil>>
    /\ readStrings = 2 /\ readPasswords = 2
    /\ Len(log) = 3 /\ log[3].error = Nil
    /\ pc = "done" /\ err = Nil

\* The password in use does not occur in the entry of the clone made with it.
NoPasswordInEntry(l, o) ==
    (o.Auth.set /\ o.Auth.Password # "" /\ l # <<>> /\ pc # "PlainClone") =>
        \A i \in 1..Len(l[Len(l)].o) : ~Contains(l[Len(l)].o[i][2], o.Auth.Password)

\* C5 as amended: the log shows of a password only whether it is empty:
\* two runs of the clone loop that differ only in the passwords, and at no
\* prompt in one being empty and the other not, write the same log; and no
\* entry holds the password of its clone.
C5_LogsAgreeUpToEmptiness ==
    /\ alike => log = log2
    /\ NoPasswordInEntry(log, cloneOptions)
    /\ NoPasswordInEntry(log2, cloneOptions2)

C5_Witness ==
    /\ alike
    /\ cloneOptions.Auth.Password = "hunter2"
    /\ cloneOptions2.Auth.Password = "s3cret"
    /\ Len(log) = 2
    /\ HasField(log[2].o, "Auth")
    /\ log = log2

\* C5 as stated: two runs that differ only in the passwords write the same
\* log.
C5_LogsAgree == log = log2

\* The Auth field of the last entry, once a clone with credentials is made.
LastAuthField == FieldOf(log[Len(log)].o, "Auth")

CloneWithAuthLogged ==
    /\ cloneOptions.Auth.set
    /\ pc # "PlainClone"
    /\ Len(log) >= 2

C7_SSHRefused ==
    (stage = "builtinGitClone" /\ pc # "builtinGitClone"
        /\ NewEndpoint(repoURLStr).err = Nil
        /\ NewEndpoint(repoURLStr).Protocol = "ssh") =>
        /\ pc = "done"
        /\ err = "builtin git does not support cloning repos over ssh, please install git"
        /\ NothingDone
        /\ ~delegated

C7_Witness ==
    /\ stage = "builtinGitClone"
    /\ ~init.ssh
    /\ repoURLStr = "git@a.b:o/r.git"
    /\ pc = "done"
    /\ err = ErrBuiltinSSH

C9_UserOnlyWhenGuessed ==
    (stage = "gitClone" /\ Len(runs) = 1) =>
        IF /\ init.guessRepoURL
           /\ username # ""
           /\ (HasPrefix(ResolvedURL, "http://") \/ HasPrefix(ResolvedURL, "https://"))
           /\ ~urlParse(ResolvedURL).hasUser
        THEN HandedURL = urlParse(ResolvedURL).Scheme \o "://" \o username \o "@"
                             \o urlParse(ResolvedURL).Host \o urlParse(ResolvedURL).Path
        ELSE HandedURL = ResolvedURL

Guessed == init.guessRepoURL /\ Len(args) = 1 /\ pc \in {"gitClone", "builtinGitClone"}

\* The first rule whose pattern matches arg, 0 if none does.
FirstMatch(arg) ==
    IF \E k \in 1..Len(repoGuesses) : Groups(k, arg) # NoMatch
    THEN CHOOSE k \in 1..Len(repoGuesses) :
             Groups(k, arg) # NoMatch /\ \A j \in 1..(k - 1) : Groups(j, arg) = NoMatch
    ELSE 0

\* What rule k makes of arg: its ssh template, or its username and its
\* https template.
Rendering(k, arg, ssh) ==
    IF ssh
    THEN <<"", Expand(repoGuesses[k].sshRepoGuessRepl, Groups(k, arg))>>
    ELSE <<Expand(repoGuesses[k].usernameGuessRepl, Groups(k, arg)),
           Expand(repoGuesses[k].httpRepoGuessRepl, Groups(k, arg))>>

\* C11: for an argument that rule k matches and no rule before it, the
\* guess is what rule k makes of it, the ssh template with --ssh and the
\* https and username templates without, also when later rules match too.
C11_FirstMatchWins ==
    (Guessed /\ FirstMatch(args[1]) # 0) =>
        <<username, repoURLStr>> = Rendering(FirstMatch(args[1]), args[1], init.ssh)

\* "alice/r" is matched by rule 2 and by rule 3; rule 2 wins.
C11_Witness ==
    /\ Guessed
    /\ args = <<"alice/r">>
    /\ Groups(2, args[1]) # NoMatch /\ Groups(3, args[1]) # NoMatch
    /\ ~init.ssh
    /\ username = "alice"
    /\ repoURLStr = "https://github.com/alice/r.git"

\* C12: for an argument that no rule matches, with or without --ssh, the
\* guess is the empty username and the argument itself.
C12_IdentityFallback ==
    (Guessed /\ \A k \in 1..Len(repoGuesses) : Groups(k, args[1]) = NoMatch) =>
        /\ username = ""
        /\ repoURLStr = args[1]

C12_Witness ==
    /\ Guessed
    /\ args = <<"https://a.b/r">>
    /\ init.ssh
    /\ FirstMatch(args[1]) = 0
    /\ username = ""
    /\ repoURLStr = "https://a.b/r"

\* C13: for an argument X of letters, digits and hyphens only, the guess is
\* the username X and https://github.com/X/dotfiles.git without --ssh, and
\* the empty username and git@github.com:X/dotfiles.git with it.
C13_BareIdentifier ==
    (Guessed /\ Plus(args[1], NameChars)) =>
        IF init.ssh
        THEN /\ username = ""
             /\ repoURLStr = "git@github.com:" \o args[1] \o "/dotfiles.git"
        ELSE /\ username = args[1]
             /\ repoURLStr = "https://github.com/" \o args[1] \o "/dotfiles.git"

C13_Witness ==
    /\ Guessed
    /\ args = <<"alice">>
    /\ init.ssh
    /\ username = ""
    /\ repoURLStr = "git@github.com:alice/dotfiles.git"

\* The first rule to match the argument is the third: host/owner, where
\* rules 1 and 2 do not match, so that the host has a dot.
ThirdRuleMatches ==
    /\ Guessed
    /\ init.ssh
    /\ Len(Split(args[1])) = 2
    /\ Plus(Split(args[1])[1], HostChars)
    /\ ~Plus(Split(args[1])[1], NameChars)
    /\ Plus(Split(args[1])[2], NameChars)

\* C14 as amended: with --ssh, an argument host/owner whose first match is
\* rule 3 is resolved by rule 3's ssh template: the guess is the empty
\* username and git@host:owner/dotfiles.git.
C14_ThirdRuleSSH ==
    ThirdRuleMatches =>
        /\ FirstMatch(args[1]) = 3
        /\ username = ""
        /\ repoURLStr = "git@" \o Split(args[1])[1] \o ":" \o Split(args[1])[2]
                            \o "/dotfiles.git"

C14_Witness ==
    /\ ThirdRuleMatches
    /\ args = <<"a.b/alice">>
    /\ repoURLStr = "git@a.b:alice/dotfiles.git"

\* C14 as stated: with --ssh, an argument whose first match is rule 3 is
\* returned as it is, with the empty username.
C14_ThirdRuleFallsThrough ==
    ThirdRuleMatches =>
        /\ username = ""
        /\ repoURLStr = args[1]

\* x is owner/repo, host/owner/repo or http(s)://host/owner/repo, where
\* owner and repo are of letters, digits and hyphens and the host may have
\* dots as well.
OwnerRepoShaped(x) ==
    LET q == Split(x)
    IN  \/ Len(q) = 2 /\ Plus(q[1], NameChars) /\ Plus(q[2], NameChars)
        \/ Len(q) = 3 /\ Plus(q[1], HostChars) /\ Plus(q[2], NameChars)
                      /\ Plus(q[3], NameChars)
        \/ Len(q) = 5 /\ q[1] \in {"http:", "https:"} /\ q[2] = ""
                      /\ Plus(q[3], HostChars) /\ Plus(q[4], NameChars)
                      /\ Plus(q[5], NameChars)

\* The argument without its last four characters.
WithoutGit == SubSeq(args[1], 1, Len(args[1]) - 4)

\* C20: for x = owner/repo, host/owner/repo or http(s)://host/owner/repo,
\* the guess for x.git is the guess for x, so that it does not end in
\* ".git.git".
C20_TrailingGitIgnored ==
    (Guessed /\ HasSuffix(args[1], ".git") /\ OwnerRepoShaped(WithoutGit)) =>
        /\ <<username, repoURLStr>> = guessRepoURL(WithoutGit, init.ssh)
        /\ ~HasSuffix(repoURLStr, ".git.git")

\* C15: the arguments of the one git clone are, in this order: clone;
\* --recurse-submodules if and only if recurseSubmodules is set; --branch and
\* the branch if and only if the branch is not empty; --depth and the depth
\* if and only if the depth is not 0; the URL; the working tree.
C15_CloneArguments ==
    (stage = "gitClone" /\ Len(runs) = 1) =>
        /\ runs[1].name = "git"
        /\ runs[1].args =
              <<"clone">>
                  \o (IF init.recurseSubmodules THEN <<"--recurse-submodules">> ELSE <<>>)
                  \o (IF init.branch = "" THEN <<>> ELSE <<"--branch", init.branch>>)
                  \o (CASE init.depth = 0 -> <<>>
                        [] init.depth = 1 -> <<"--depth", "1">>
                        [] init.depth = 2 -> <<"--depth", "2">>)
                  \o <<repoURLStr, "/home/user/.local/share/chezmoi">>

C15_Witness ==
    /\ stage = "gitClone"
    /\ Len(runs) = 1
    /\ init.recurseSubmodules /\ init.branch = "main" /\ init.depth = 2
    /\ runs[1].args = <<"clone", "--recurse-submodules", "--branch", "main",
                        "--depth", "2", "https://a.b/o/r",
                        "/home/user/.local/share/chezmoi">>

\* builtinGitClone is in its loop.
InCloneLoop == pc \in {"PlainClone", "Fprintf", "readString", "readPassword"}

\* C16: the first clone is made with no credentials, and every later one
\* with the username and the password of the prompts just before it, which
\* take the place of the ones before; credentials are there only after an
\* "authentication required"; the URL, the depth, the reference name and the
\* recursion into submodules are the same for every clone.
C16_CloneOptions ==
    /\ InCloneLoop =>
          /\ cloneOptions.URL = repoURLStr
          /\ cloneOptions.Depth = init.depth
          /\ cloneOptions.ReferenceName =
                 (IF init.branch = "" THEN "" ELSE "refs/heads/" \o init.branch)
          /\ cloneOptions.RecurseSubmodules = 10
    /\ \A i \in 1..Len(log) :
          log[i].message = "PlainClone" => FieldOf(log[i].o, "URL") = repoURLStr
    /\ cloneOptions.Auth.set =>
          (results # <<>> /\ results[1] = ErrAuthenticationRequired)
    /\ (pc = "PlainClone" /\ plainClones = 0) => ~cloneOptions.Auth.set
    /\ (pc = "PlainClone" /\ plainClones > 0) =>
          /\ cloneOptions.Auth.set
          /\ readStrings = plainClones /\ readPasswords = plainClones
          /\ cloneOptions.Auth = basicAuth
          /\ cloneOptions.Auth.Username \in (Usernames \ {""}) \cup {username}
          /\ cloneOptions.Auth.Password \in Passwords

\* The second clone was made for zed and the third is to be made for alice.
C16_Witness ==
    /\ pc = "PlainClone"
    /\ plainClones = 2
    /\ FieldOf(log[2].o, "Auth") = "http-basic-auth - zed:<empty>"
    /\ cloneOptions.Auth = [set |-> TRUE, Username |-> "alice", Password |-> "hunter2"]

\* The notice was written and the prompts were answered, all of them.
PromptsReturned == err \notin {ErrWrite, ErrEOF}

\* C17: the clone stage ends when, and only when, PlainClone returns
\* something else than "authentication required": when PlainClone and the
\* prompts return and PlainClone does not answer "authentication required"
\* for ever, builtinGitClone is left in the end; it is left as soon as
\* PlainClone returns something else, and, the notice written and the
\* prompts answered, it is not left after "authentication required", however
\* many times that was the answer.
C17_LoopEndsOnlyOnOtherResult ==
    /\ (stage = "builtinGitClone") ~> TreeStageOver
    /\ [](stage = "builtinGitClone" =>
            /\ (results # <<>> /\ LastCloneErr # ErrAuthenticationRequired) => TreeStageOver
            /\ (results # <<>> /\ LastCloneErr = ErrAuthenticationRequired
                   /\ PromptsReturned) => InCloneLoop)

\* After two failures the loop is about to clone again, and it has ended
\* after a third answer.
C17_Witness ==
    /\ stage = "builtinGitClone"
    /\ results = <<ErrAuthenticationRequired, ErrAuthenticationRequired, ErrRepositoryNotFound>>
    /\ readPasswords = 2
    /\ pc = "done"
    /\ err = ErrRepositoryNotFound

\* builtinGitClone has got past its test of the transport, the URL being one
\* that NewEndpoint accepts.
PastTransportTest ==
    /\ stage = "builtinGitClone"
    /\ pc # "builtinGitClone"
    /\ NewEndpoint(repoURLStr).err = Nil

\* A clone is being made or has been made by builtinGitClone.
CloneAttempted == pc = "PlainClone" \/ plainClones > 0

C19_RecurseIffFlag ==
    /\ (stage = "gitClone" /\ Len(runs) = 1) =>
          ((\E i \in 1..Len(runs[1].args) : runs[1].args[i] = "--recurse-submodules")
              <=> init.recurseSubmodules)
    /\ (stage = "builtinGitClone" /\ CloneAttempted) =>
          ((cloneOptions.RecurseSubmodules # 0) <=> init.recurseSubmodules)

====
